---- MODULE Spec2Model ----
(***************************************************************************)
(* A model of gift-sniper-2: the catalog poller (cli/start.rs process),    *)
(* the bot's update listener (bot.rs run_bot / on_update) and the purchase *)
(* round (core.rs buy_gifts / get_gift_prices).                            *)
(*                                                                         *)
(* Granularity: every `.await` on a remote call or a database call is a    *)
(* suspension point; the code between two suspension points of one task    *)
(* is one step.  The engines of one buy_gifts call are futures polled by   *)
(* try_join_all inside the caller's task, so what follows the join (the    *)
(* caller's continuation) belongs to the step of the engine that ends it.  *)
(*                                                                         *)
(* Option<T> is modelled as a sequence: << >> is None, <<v>> is Some(v).   *)
(***************************************************************************)
EXTENDS Integers, Sequences, FiniteSets, TLC

\* ---------------------------------------------------------------- bounds
MaxGiftId == 2        \* catalog gift ids are 1..MaxGiftId
MaxStars == 2         \* gift prices (stars) are 0..MaxStars
MaxBalance == 3       \* balances answered by GetStarsStatus are 0..MaxBalance
MaxLimit == 2         \* explicit --buy-limit values are 0..MaxLimit
MaxItems == 2         \* longest gift_ids list handed to buy_gifts directly
MaxCallbacks == 1     \* "Buy" callback queries received in one run
MaxHash == 1          \* catalog hashes are 0..MaxHash
MaxTotal == 2         \* availability_total values are 1..MaxTotal
MaxSupplyItems == 3   \* gifts in one catalog of the ordering runs
MaxChats == 4         \* trusted chats (recipients) are 1..MaxChats

\* ------------------------------------------------------ program constants
DefaultLimit == 100   \* limit.unwrap_or(100)
PollRound == 0        \* the round slot of the poller's buy_gifts call
ConfigMaxSupply == 1  \* the configured max_supply (MAX_SUPPLY)

\* ------------------------------------------------------------ value sets
GiftIds == 1..MaxGiftId
Stars == 0..MaxStars
Balances == 0..MaxBalance
Limits == {<< >>} \cup {<<l>> : l \in 0..MaxLimit}
Hashes == 0..MaxHash
RoundIds == 0..MaxCallbacks
CallbackRounds == 1..MaxCallbacks
Phones == {1, 2}      \* the configured phone numbers
Dests == {"PeerSelf", "ChannelPeer", "ChannelUsername"}

\* The worked scenario of the purchase loop: gift 42, balances 250 and 50.
ScenarioGift == {42}
ScenarioStars == {40, 100}
ScenarioBalances == {50, 250}

VARIABLES
  clients,            \* the authorised accounts (phone numbers), in order
  buy_limit,          \* Option<u64>: --buy-limit / limit
  rounds,             \* round slot -> the buy_gifts call running in it
  eng,                \* round slot -> phone -> the per-client future
  pollPc,             \* where the poll loop of start::process is suspended
  cfg,                \* ignore_not_limited, do_buy, max_supply
  gifts_hash,         \* the poll loop's gifts_hash
  seen_gift_ids,      \* the poll loop's seen_gift_ids
  lastTick,           \* what the step just taken computed, if it was a
                      \* Gifts answer of the poll loop (history)
  lastLookup,         \* the table get_gift_prices looked the ids up in, if
                      \* the step just taken ran the lookup (history)
  handed,             \* gift id -> how often the poller passed it to buy_gifts
  notify,             \* "running" while a spawned notify_gifts task has not
                      \* ended, else "none"
  fan                 \* one notification task followed through its sends

vars == <<clients, buy_limit, rounds, eng, pollPc, cfg, gifts_hash,
          seen_gift_ids, lastTick, lastLookup, handed, notify, fan>>

\* ------------------------------------------------------------- helpers
Min(a, b) == IF a <= b THEN a ELSE b

UnwrapOr(opt, d) == IF opt = << >> THEN d ELSE opt[1]

Range(s) == {s[i] : i \in DOMAIN s}

RECURSIVE Sum(_)
Sum(s) == IF s = << >> THEN 0 ELSE s[1] + Sum(Tail(s))

Zeros(n) == [i \in 1..n |-> 0]

\* let limit = limit.unwrap_or(100);
Limit == UnwrapOr(buy_limit, DefaultLimit)

\* ------------------------------------------------------------ the catalog
\* StarGift::Gift entries carry the fields the code reads; StarGift::Unique
\* entries are dropped before any field is read.
None == << >>
Some(v) == <<v>>

Totals == {None} \cup {Some(t) : t \in 1..MaxTotal}

PlainGifts ==
  [kind : {"Gift"}, id : GiftIds, limited : BOOLEAN, sold_out : BOOLEAN,
   availability_total : Totals, stars : 1..MaxStars]

UniqueGifts ==
  [kind : {"Unique"}, id : GiftIds, limited : {FALSE}, sold_out : {FALSE},
   availability_total : {None}, stars : {0}]

GiftUniverse == PlainGifts \cup UniqueGifts

\* The catalogs the poll loop is answered with list every gift at one
\* price, which depends on its id, and list a sold-out gift as limited with
\* the least total supply, so that being sold out is all that keeps it
\* from being bought.
StarsOf(id) == ((id - 1) % MaxStars) + 1

ListedGifts ==
  {g \in GiftUniverse :
     g.kind = "Gift" =>
       /\ g.stars = StarsOf(g.id)
       /\ g.sold_out => (g.limited /\ g.availability_total = Some(1))}

\* Catalog entries that differ only in the fields get_gift_prices reads
\* (kind, id, stars); the other fields are held at one value.
PricedGifts ==
  {g \in GiftUniverse :
     ~g.limited /\ ~g.sold_out /\ g.availability_total = None}

\* The gift lists a Gifts response can carry, drawn from the entries U: ids
\* are unique within one catalog, and a catalog lists its gifts by id.
Catalogs(U) ==
  {s \in UNION {[1..n -> U] : n \in 0..Cardinality({g.id : g \in U})} :
     \A i, j \in DOMAIN s : i < j => s[i].id < s[j].id}

\* ------------------------------------------------------- get_gift_prices
\* core.rs 205-214: the id -> stars table of a fetched catalog; collecting
\* into a BTreeMap keeps the last entry of an id.
LastIndexOf(gifts, id) ==
  CHOOSE i \in DOMAIN gifts :
    /\ gifts[i].kind = "Gift" /\ gifts[i].id = id
    /\ \A j \in DOMAIN gifts :
         (gifts[j].kind = "Gift" /\ gifts[j].id = id) => j <= i

PricesOfCatalog(gifts) ==
  [id \in {gifts[i].id : i \in {j \in DOMAIN gifts : gifts[j].kind = "Gift"}}
     |-> gifts[LastIndexOf(gifts, id)].stars]

\* Variant: an id without a price is left out of the result.
LookupPricesPartial(gift_ids, map) ==
  LET priced == SelectSeq(gift_ids, LAMBDA id : id \in DOMAIN map) IN
  [ok |-> TRUE, prices |-> [i \in DOMAIN priced |-> map[priced[i]]],
   err |-> None]

\* Variant: the prices come out in the reverse of the order of gift_ids.
LookupPricesReversed(gift_ids, map) ==
  LET missing == {i \in DOMAIN gift_ids : gift_ids[i] \notin DOMAIN map} IN
  IF missing = {}
  THEN [ok |-> TRUE,
        prices |-> [i \in DOMAIN gift_ids |->
                      map[gift_ids[Len(gift_ids) + 1 - i]]],
        err |-> None]
  ELSE [ok |-> FALSE, prices |-> << >>,
        err |-> <<"GiftPriceNotFound",
                  gift_ids[CHOOSE i \in missing : \A j \in missing : i <= j]>>]

\* core.rs 218-226: look every id up, in order; the first miss is the error.
LookupPrices(gift_ids, map) ==
  LET missing == {i \in DOMAIN gift_ids : gift_ids[i] \notin DOMAIN map} IN
  IF missing = {}
  THEN [ok |-> TRUE, prices |-> [i \in DOMAIN gift_ids |-> map[gift_ids[i]]],
        err |-> None]
  ELSE [ok |-> FALSE, prices |-> << >>,
        err |-> <<"GiftPriceNotFound",
                  gift_ids[CHOOSE i \in missing : \A j \in missing : i <= j]>>]

\* ----------------------------------------------- the per-client future
\* pc: "idle" (not created), "balance" (awaiting GetStarsStatus), "form"
\* (awaiting GetPaymentForm), "send" (awaiting SendStarsForm), "done"
\* (returned Ok), "failed" (returned Err), "dropped" (dropped unfinished).
\* idx/count: the position of the two for loops.  requested[i] counts the
\* GetPaymentForm requests issued for item i, events[i] the
\* notify_gift_buy_status tasks spawned for it.  spent: the prices of the
\* items reported with Success, summed; nonsucc: some report was not a
\* Success.  last: the arguments of the latest notify_gift_buy_status
\* spawned.  The environment's side: reply is the result ("ok" / "err") of
\* the latest remote call of this future, faults says that one has failed.
IdleEngine ==
  [pc |-> "idle", initial |-> 0, amount |-> 0, idx |-> 1, count |-> 1,
   requested |-> << >>, events |-> << >>, spent |-> 0, nonsucc |-> FALSE,
   last |-> None, reply |-> "ok", faults |-> FALSE]

Replied(e, reply) ==
  [e EXCEPT !.reply = reply, !.faults = @ \/ reply = "err"]

\* core.rs 92-96: from loop position (idx, count), the next attempt the
\* loops reach with the balance `amount`, or idx = Len + 1 when they end.
\* Variant: the balance test stops at equality too.
RECURSIVE NextAttemptStrict(_, _, _, _, _)
NextAttemptStrict(prices, limit, amount, idx, count) ==
  IF idx > Len(prices) THEN [idx |-> idx, count |-> 1]
  ELSE IF count > limit \/ amount <= prices[idx]
       THEN NextAttemptStrict(prices, limit, amount, idx + 1, 1)
       ELSE [idx |-> idx, count |-> count]

\* Variant: the balance is not tested.
RECURSIVE NextAttemptUnchecked(_, _, _, _, _)
NextAttemptUnchecked(prices, limit, amount, idx, count) ==
  IF idx > Len(prices) THEN [idx |-> idx, count |-> 1]
  ELSE IF count > limit
       THEN NextAttemptUnchecked(prices, limit, amount, idx + 1, 1)
       ELSE [idx |-> idx, count |-> count]

\* Variant: an item the balance cannot pay ends the whole run.
RECURSIVE NextAttemptEndsRun(_, _, _, _, _)
NextAttemptEndsRun(prices, limit, amount, idx, count) ==
  IF idx > Len(prices) THEN [idx |-> idx, count |-> 1]
  ELSE IF amount < prices[idx] THEN [idx |-> Len(prices) + 1, count |-> 1]
  ELSE IF count > limit
       THEN NextAttemptEndsRun(prices, limit, amount, idx + 1, 1)
       ELSE [idx |-> idx, count |-> count]

RECURSIVE NextAttempt(_, _, _, _, _)
NextAttempt(prices, limit, amount, idx, count) ==
  IF idx > Len(prices) THEN [idx |-> idx, count |-> 1]
  ELSE IF count > limit \/ amount < prices[idx]
       THEN NextAttempt(prices, limit, amount, idx + 1, 1)
       ELSE [idx |-> idx, count |-> count]

\* Run the loops from (idx, count) to the next GetPaymentForm request
\* (core.rs 115-120) or to the end of the future (core.rs 182).
Proceed(e, prices, limit, idx, count) ==
  LET n == NextAttempt(prices, limit, e.amount, idx, count) IN
  IF n.idx > Len(prices)
  THEN [e EXCEPT !.pc = "done", !.idx = n.idx, !.count = n.count]
  ELSE [e EXCEPT !.pc = "form", !.idx = n.idx, !.count = n.count,
                 !.requested[n.idx] = @ + 1]

\* tokio::spawn(notify_gift_buy_status(bot, pool, count, phone, balance,
\* gift_id, status)): core.rs 127-140 and 165-178.
SpawnNotify(e, phone, gift_id, price, status) ==
  [e EXCEPT !.events[e.idx] = @ + 1,
            !.spent = IF status = "Success" THEN @ + price ELSE @,
            !.nonsucc = IF status = "Success" THEN @ ELSE TRUE,
            !.last = Some([count |-> e.count, phone |-> phone,
                           balance |-> e.amount, gift_id |-> gift_id,
                           status |-> status])]

\* Variant: the attempt counter starts at 0 (0..=limit).
OnStarsStatusFromZero(e, b, prices, limit) ==
  Proceed([e EXCEPT !.initial = b, !.amount = b,
                    !.requested = Zeros(Len(prices)),
                    !.events = Zeros(Len(prices))],
          prices, limit, 1, 0)

\* Variant: the loops start at the last item.
OnStarsStatusLastFirst(e, b, prices, limit) ==
  Proceed([e EXCEPT !.initial = b, !.amount = b,
                    !.requested = Zeros(Len(prices)),
                    !.events = Zeros(Len(prices))],
          prices, limit, IF prices = << >> THEN 1 ELSE Len(prices), 1)

\* core.rs 83-92: GetStarsStatus answered with balance b.
OnStarsStatus(e, b, prices, limit) ==
  Proceed([e EXCEPT !.initial = b, !.amount = b,
                    !.requested = Zeros(Len(prices)),
                    !.events = Zeros(Len(prices))],
          prices, limit, 1, 1)

\* Variant: the form error is not reported before `continue`.
OnPaymentFormErrSilent(e, phone, gift_ids, prices, limit) ==
  Proceed(e, prices, limit, e.idx, e.count + 1)

\* Variant: the form error is reported and the confirmation is sent all
\* the same.
OnPaymentFormErrSubmits(e, phone, gift_ids, prices, limit) ==
  [SpawnNotify(e, phone, gift_ids[e.idx], prices[e.idx], "PaymentFormError")
     EXCEPT !.pc = "send"]

\* Variant: after a form error the same attempt is made again.
OnPaymentFormErrRetry(e, phone, gift_ids, prices, limit) ==
  Proceed(SpawnNotify(e, phone, gift_ids[e.idx], prices[e.idx],
                      "PaymentFormError"),
          prices, limit, e.idx, e.count)

\* core.rs 125-142: GetPaymentForm failed; report and `continue`.
OnPaymentFormErr(e, phone, gift_ids, prices, limit) ==
  Proceed(SpawnNotify(e, phone, gift_ids[e.idx], prices[e.idx],
                      "PaymentFormError"),
          prices, limit, e.idx, e.count + 1)

\* core.rs 154-158 and 165-178: SendStarsForm succeeded.
OnSendStarsFormOk(e, phone, gift_ids, prices, limit) ==
  Proceed(SpawnNotify([e EXCEPT !.amount = @ - prices[e.idx]],
                      phone, gift_ids[e.idx], prices[e.idx], "Success"),
          prices, limit, e.idx, e.count + 1)

\* Variant: the balance is decremented before the result is matched.
OnSendStarsFormErrCharged(e, phone, gift_ids, prices, limit) ==
  Proceed(SpawnNotify([e EXCEPT !.amount = @ - prices[e.idx]],
                      phone, gift_ids[e.idx], prices[e.idx],
                      "SendStarsFormError"),
          prices, limit, e.idx, e.count + 1)

\* core.rs 159-162 and 165-178: SendStarsForm failed.
OnSendStarsFormErr(e, phone, gift_ids, prices, limit) ==
  Proceed(SpawnNotify(e, phone, gift_ids[e.idx], prices[e.idx],
                      "SendStarsFormError"),
          prices, limit, e.idx, e.count + 1)

\* --------------------------------------------------------- buy_gifts round
\* state: "idle" (no call), "call" (called, not yet run), "answer" (the
\* listener awaits answer_callback_query), "resolve" (awaiting
\* resolve_username), "prices" (awaiting GetStarGifts { hash: 0 }),
\* "running" (inside try_join_all), "ok" / "err" (returned), "ended" (the
\* task that made the call is over).
\* gift_ids, known (gift_prices_map) and dest are the call's arguments;
\* dest and known are kept only until they have been resolved, which is
\* their last use (core.rs 63 and 71).
IdleRound ==
  [state |-> "idle", gift_ids |-> << >>, known |-> None, dest |-> None,
   gift_prices |-> << >>, err |-> None]

NoEngines == [a \in Range(clients) |-> IdleEngine]

Returned(rd) == rd.state \in {"ok", "err"}

InProgress(rd) == rd.state \in {"resolve", "prices", "running"}

\* Variant: the per-client futures are created before the failure is
\* returned.
FailAfterStart(rd, err) ==
  [rd |-> [rd EXCEPT !.state = "err", !.err = err, !.known = None,
                     !.dest = None],
   en |-> [a \in Range(clients) |-> [IdleEngine EXCEPT !.pc = "balance"]]]

Fail(rd, err) ==
  [rd |-> [rd EXCEPT !.state = "err", !.err = err, !.known = None,
                     !.dest = None],
   en |-> NoEngines]

\* core.rs 75-92: try_join_all creates one future per client and polls
\* each; every one of them suspends in GetStarsStatus.
StartEngines(rd, prices) ==
  [rd |-> [rd EXCEPT !.state = "running", !.gift_prices = prices,
                     !.known = None],
   en |-> [a \in Range(clients) |-> [IdleEngine EXCEPT !.pc = "balance"]]]

\* core.rs 71 with 195-227: a supplied table is looked up at once; without
\* one the call suspends in GetStarGifts.
ResolvePrices(rd) ==
  IF rd.known = None
  THEN [rd |-> [rd EXCEPT !.state = "prices", !.dest = None],
        en |-> NoEngines]
  ELSE LET res == LookupPrices(rd.gift_ids, rd.known[1]) IN
       IF res.ok THEN StartEngines([rd EXCEPT !.dest = None], res.prices)
       ELSE Fail(rd, res.err)

\* core.rs 59-71: the synchronous head of buy_gifts.
BuyGiftsCall(gift_ids, known, dest) ==
  LET rd == [IdleRound EXCEPT !.gift_ids = gift_ids, !.known = known,
                              !.dest = Some(dest)] IN
  IF dest = "ChannelUsername"
  THEN [rd |-> [rd EXCEPT !.state = "resolve"], en |-> NoEngines]
  ELSE ResolvePrices(rd)

\* core.rs 75-187: try_join_all returns the first Err as soon as a future
\* yields it and drops the futures that have not finished; it returns Ok
\* once all have.
TryJoinAll(rd, en) ==
  IF \E a \in DOMAIN en : en[a].pc = "failed"
  THEN [rd |-> [rd EXCEPT !.state = "err", !.err = <<"GrammersInvocation">>],
        en |-> [a \in DOMAIN en |->
                  IF en[a].pc \in {"done", "failed"} THEN en[a]
                  ELSE [en[a] EXCEPT !.pc = "dropped"]]]
  ELSE IF \A a \in DOMAIN en : en[a].pc = "done"
       THEN [rd |-> [rd EXCEPT !.state = "ok"], en |-> en]
       ELSE [rd |-> rd, en |-> en]

\* Once process has returned, the runtime is gone and no task runs on.
Alive == pollPc # "exited"

\* The caller's continuation.  start.rs 153-161: the poll loop logs an Err
\* of its buy_gifts call and goes on to sync_session; bot.rs 162-174: the
\* spawned task of a callback ends.
\* Variant: the poll loop applies `?` to the result of buy_gifts.
StepFatal(r, res, lookup) ==
  /\ Alive
  /\ rounds' = [rounds EXCEPT ![r] = res.rd]
  /\ eng' = [eng EXCEPT ![r] = res.en]
  /\ pollPc' = IF r = PollRound /\ pollPc = "buying" /\ Returned(res.rd)
               THEN (IF res.rd.state = "err" THEN "exited" ELSE "sync")
               ELSE pollPc
  /\ lastTick' = None
  /\ lastLookup' = lookup
  /\ UNCHANGED <<clients, buy_limit, cfg, gifts_hash, seen_gift_ids, handed, notify, fan>>

Step(r, res, lookup) ==
  /\ Alive
  /\ rounds' = [rounds EXCEPT ![r] = res.rd]
  /\ eng' = [eng EXCEPT ![r] = res.en]
  /\ pollPc' = IF r = PollRound /\ pollPc = "buying" /\ Returned(res.rd)
               THEN "sync" ELSE pollPc
  /\ lastTick' = None
  /\ lastLookup' = lookup
  /\ UNCHANGED <<clients, buy_limit, cfg, gifts_hash, seen_gift_ids, handed, notify, fan>>

Continue(r, res) == Step(r, res, None)

\* The lookup of round r in the table it was called with, if it has one.
KnownLookup(r) ==
  IF rounds[r].known = None THEN None
  ELSE Some([round |-> r, fetched |-> FALSE, table |-> rounds[r].known[1]])

\* A buy_gifts call made from outside the poll loop starts running.
CallBuyGifts(r) ==
  /\ rounds[r].state = "call"
  /\ Step(r, BuyGiftsCall(rounds[r].gift_ids, rounds[r].known,
                          rounds[r].dest[1]),
          IF rounds[r].dest[1] = "ChannelUsername" THEN None
          ELSE KnownLookup(r))

\* core.rs 66 with 240-267: resolve_username answered with an accessible
\* channel.
ResolveUsernameOk(r) ==
  /\ rounds[r].state = "resolve"
  /\ Step(r, ResolvePrices(rounds[r]), KnownLookup(r))

\* core.rs 243-258: the request failed, or found no chat, no channel, or a
\* channel without access hash.
ResolveUsernameErr(r) ==
  /\ rounds[r].state = "resolve"
  /\ \E err \in {"GrammersInvocation", "ChatNotFound", "ChatIsNotChannel",
                 "ChannelNotAccessible"} :
       Continue(r, Fail(rounds[r], <<err>>))

\* core.rs 198-226: GetStarGifts { hash: 0 } answered with a catalog.
PricesFetched(r, U) ==
  /\ rounds[r].state = "prices"
  /\ \E gifts \in Catalogs(U) :
       LET table == PricesOfCatalog(gifts)
           res == LookupPrices(rounds[r].gift_ids, table)
       IN  Step(r, IF res.ok THEN StartEngines(rounds[r], res.prices)
                   ELSE Fail(rounds[r], res.err),
                Some([round |-> r, fetched |-> TRUE, table |-> table]))

\* core.rs 198 and 202: the request failed, or answered NotModified.
PricesFetchErr(r) ==
  /\ rounds[r].state = "prices"
  /\ \E err \in {"GrammersInvocation", "UnexpectedNotModified"} :
       Continue(r, Fail(rounds[r], <<err>>))

\* One future of try_join_all resumes and becomes e; the join is polled.
EngineStep(r, a, e) ==
  Continue(r, TryJoinAll(rounds[r], [eng[r] EXCEPT ![a] = e]))

Running(r, a, pc) ==
  /\ rounds[r].state = "running"
  /\ a \in DOMAIN eng[r]
  /\ eng[r][a].pc = pc

StarsStatusOk(r, a, BS) ==
  /\ Running(r, a, "balance")
  /\ \E b \in BS :
       EngineStep(r, a, OnStarsStatus(Replied(eng[r][a], "ok"), b,
                                      rounds[r].gift_prices, Limit))

\* Variant: a failed GetStarsStatus counts as a balance of 0 and the loops
\* run.
StarsStatusErrAsZero(r, a) ==
  /\ Running(r, a, "balance")
  /\ EngineStep(r, a, OnStarsStatus(Replied(eng[r][a], "err"), 0,
                                    rounds[r].gift_prices, Limit))

\* core.rs 87: `?` on the GetStarsStatus error ends the future with Err.
StarsStatusErr(r, a) ==
  /\ Running(r, a, "balance")
  /\ EngineStep(r, a, [Replied(eng[r][a], "err") EXCEPT !.pc = "failed"])

\* core.rs 124 and 145-150: the form arrived; SendStarsForm is invoked.
PaymentFormOk(r, a) ==
  /\ Running(r, a, "form")
  /\ EngineStep(r, a, [Replied(eng[r][a], "ok") EXCEPT !.pc = "send"])

PaymentFormErr(r, a) ==
  /\ Running(r, a, "form")
  /\ EngineStep(r, a, OnPaymentFormErr(Replied(eng[r][a], "err"), a,
                                       rounds[r].gift_ids,
                                       rounds[r].gift_prices, Limit))

SendStarsFormOk(r, a) ==
  /\ Running(r, a, "send")
  /\ EngineStep(r, a, OnSendStarsFormOk(Replied(eng[r][a], "ok"), a,
                                        rounds[r].gift_ids,
                                        rounds[r].gift_prices, Limit))

SendStarsFormErr(r, a) ==
  /\ Running(r, a, "send")
  /\ EngineStep(r, a, OnSendStarsFormErr(Replied(eng[r][a], "err"), a,
                                         rounds[r].gift_ids,
                                         rounds[r].gift_prices, Limit))

\* ------------------------------------- one notification task (bot.rs)
\* fan.fn: the function the task runs, notify_gift_buy_status or
\* notify_gifts for one gift with a sticker document.  fan.pc: "off" (no
\* task followed in this run), "chats" (awaiting get_chats), "file"
\* (notify_gifts awaiting GetFile), "sending" (inside try_join_all over the
\* chats), "ok" / "err" (the function returned).  fan.gift: the result of
\* the gift's future inside join_all ("none" until it ends).  fan.sends:
\* chat -> "idle" (not created), "sending" (request in flight), "sent",
\* "failed", "dropped" (the future of the send was dropped unfinished).
Chats == 1..MaxChats

FanOff == [fn |-> "none", pc |-> "off", gift |-> "none", sends |-> << >>]

FanUnchanged ==
  /\ lastTick' = None
  /\ lastLookup' = None
  /\ UNCHANGED <<clients, buy_limit, rounds, eng, pollPc, cfg, gifts_hash,
                 seen_gift_ids, handed, notify>>

\* bot.rs 250-271 and 311-326: try_join_all over the chats returns the
\* first Err at once and drops the sends still in flight; it returns Ok
\* once all are sent.  notify_gift_buy_status returns that Err (`?`, 326);
\* in notify_gifts it ends the gift's future (`?`, 271), whose result
\* join_all discards (189, 276-279).
JoinSends(f, sends) ==
  IF \E c \in DOMAIN sends : sends[c] = "failed"
  THEN LET dropped == [c \in DOMAIN sends |->
                         IF sends[c] = "sending" THEN "dropped" ELSE sends[c]]
       IN  IF f.fn = "notify_gifts"
           THEN [f EXCEPT !.sends = dropped, !.gift = "err", !.pc = "ok"]
           ELSE [f EXCEPT !.sends = dropped, !.pc = "err"]
  ELSE IF \A c \in DOMAIN sends : sends[c] = "sent"
       THEN IF f.fn = "notify_gifts"
            THEN [f EXCEPT !.sends = sends, !.gift = "ok", !.pc = "ok"]
            ELSE [f EXCEPT !.sends = sends, !.pc = "ok"]
       ELSE [f EXCEPT !.sends = sends, !.pc = "sending"]

\* The sends to the chats are created and polled: every request goes out.
StartSends(f, chats) == JoinSends(f, [c \in chats |-> "sending"])

\* bot.rs 188 and 298: get_chats returned the trusted chats.
GetChatsOk ==
  /\ fan.pc = "chats"
  /\ \E n \in 0..MaxChats :
       fan' = IF fan.fn = "notify_gifts"
              THEN [fan EXCEPT !.pc = "file", !.sends = [c \in 1..n |-> "idle"]]
              ELSE StartSends(fan, 1..n)
  /\ FanUnchanged

\* bot.rs 188 and 298: get_chats failed; `?` returns the error.
GetChatsErr ==
  /\ fan.pc = "chats"
  /\ fan' = [fan EXCEPT !.pc = "err"]
  /\ FanUnchanged

\* bot.rs 221-271: GetFile answered File::File; the photo is sent to every
\* chat.
GetFileOk ==
  /\ fan.pc = "file"
  /\ fan' = StartSends(fan, DOMAIN fan.sends)
  /\ FanUnchanged

\* bot.rs 221-228 and 274: GetFile failed (the gift's future ends with Err)
\* or answered a CDN redirect (it ends with Ok); nothing is sent and
\* notify_gifts returns Ok.
GetFileNoFile ==
  /\ fan.pc = "file"
  /\ \E res \in {"ok", "err"} :
       fan' = [fan EXCEPT !.pc = "ok", !.gift = res]
  /\ FanUnchanged

\* bot.rs 255-259 and 323: the send to chat c succeeded.
SendOk(c) ==
  /\ fan.pc = "sending"
  /\ c \in DOMAIN fan.sends
  /\ fan.sends[c] = "sending"
  /\ fan' = JoinSends(fan, [fan.sends EXCEPT ![c] = "sent"])
  /\ FanUnchanged

\* bot.rs 260-266 and 323: the send to chat c failed.
SendErr(c) ==
  /\ fan.pc = "sending"
  /\ c \in DOMAIN fan.sends
  /\ fan.sends[c] = "sending"
  /\ fan' = JoinSends(fan, [fan.sends EXCEPT ![c] = "failed"])
  /\ FanUnchanged

InitFan ==
  /\ clients = <<1>>
  /\ buy_limit = None
  /\ rounds = [r \in RoundIds |-> IdleRound]
  /\ eng = [r \in RoundIds |-> NoEngines]
  /\ pollPc = "off"
  /\ cfg = [ignore_not_limited |-> FALSE, do_buy |-> FALSE, max_supply |-> 1]
  /\ gifts_hash = 0
  /\ seen_gift_ids = {}
  /\ lastTick = None
  /\ lastLookup = None
  /\ handed = [id \in GiftIds |-> 0]
  /\ notify = "none"
  /\ \E fn \in {"notify_gifts", "notify_gift_buy_status"} :
       fan = [FanOff EXCEPT !.fn = fn, !.pc = "chats"]

NextFan ==
  \/ GetChatsOk
  \/ GetChatsErr
  \/ GetFileOk
  \/ GetFileNoFile
  \/ \E c \in Chats : SendOk(c)
  \/ \E c \in Chats : SendErr(c)

SpecFan == InitFan /\ [][NextFan]_vars

\* ------------------------------------------- one buy_gifts call (SpecBuy)
\* The inputs of a direct call are drawn from three families and the
\* worked scenario:
\*   one account, up to MaxItems gifts, an explicit limit, any table;
\*   two accounts, up to one gift, an explicit limit, any table;
\*   one account, one gift, no limit (the default of 100), any table;
\*   the scenario: two accounts, gift 42 at 100 or 40 stars, limit 2.
KnownTables(ids, stars) ==
  {None} \cup {Some(m) : m \in UNION {[S -> stars] : S \in SUBSET ids}}

IdLists(ids, n) == UNION {[1..k -> ids] : k \in 0..n}

BuyInputs ==
  [clients : {<<1>>}, limit : Limits \ {None}, dest : Dests,
   gift_ids : IdLists(GiftIds, MaxItems), known : KnownTables(GiftIds, Stars)]
  \cup
  [clients : {<<1, 2>>}, limit : Limits \ {None}, dest : {"PeerSelf"},
   gift_ids : IdLists(GiftIds, 1), known : KnownTables(GiftIds, Stars)]
  \cup
  [clients : {<<1>>}, limit : {None}, dest : {"PeerSelf"},
   gift_ids : IdLists(GiftIds, 1) \ {<< >>},
   known : KnownTables(GiftIds, Stars)]
  \cup
  [clients : {<<1, 2>>}, limit : {Some(2)}, dest : {"PeerSelf"},
   gift_ids : IdLists(ScenarioGift, 1) \ {<< >>},
   known : KnownTables(ScenarioGift, ScenarioStars) \ {None, Some(<< >>)}]

InitBuy ==
  /\ \E in \in BuyInputs :
       /\ clients = in.clients
       /\ buy_limit = in.limit
       /\ rounds = [r \in RoundIds |->
                      IF r = PollRound
                      THEN [IdleRound EXCEPT !.state = "call",
                                             !.gift_ids = in.gift_ids,
                                             !.known = in.known,
                                             !.dest = Some(in.dest)]
                      ELSE IdleRound]
  /\ eng = [r \in RoundIds |-> NoEngines]
  /\ pollPc = "off"
  /\ cfg = [ignore_not_limited |-> FALSE, do_buy |-> FALSE, max_supply |-> 1]
  /\ gifts_hash = 0
  /\ seen_gift_ids = {}
  /\ lastTick = None
  /\ lastLookup = None
  /\ handed = [id \in GiftIds |-> 0]
  /\ notify = "none"
  /\ fan = FanOff

\* The balances GetStarsStatus answers with: the scenario's for the
\* scenario's gift, 0..MaxBalance otherwise.
BuyBalances ==
  IF Range(rounds[PollRound].gift_ids) \subseteq ScenarioGift
     /\ rounds[PollRound].gift_ids # << >>
  THEN ScenarioBalances ELSE Balances

NextBuy ==
  \/ CallBuyGifts(PollRound)
  \/ ResolveUsernameOk(PollRound)
  \/ ResolveUsernameErr(PollRound)
  \/ PricesFetched(PollRound, PricedGifts)
  \/ PricesFetchErr(PollRound)
  \/ \E a \in Phones : StarsStatusOk(PollRound, a, BuyBalances)
  \/ \E a \in Phones : StarsStatusErr(PollRound, a)
  \/ \E a \in Phones : PaymentFormOk(PollRound, a)
  \/ \E a \in Phones : PaymentFormErr(PollRound, a)
  \/ \E a \in Phones : SendStarsFormOk(PollRound, a)
  \/ \E a \in Phones : SendStarsFormErr(PollRound, a)

SpecBuy == InitBuy /\ [][NextBuy]_vars

\* ------------------------------ one buy_gifts call under scheduling (SpecTerm)
\* A direct call with an explicit limit, either for the gifts 1, 2, .. in
\* this order with a table that prices every gift at 1, or for up to one
\* gift with no table.  Every request the call awaits (resolve_username,
\* GetStarGifts, GetStarsStatus, GetPaymentForm, SendStarsForm) completes,
\* with Ok or Err, and the runtime polls the task when one has: a step of
\* the call that is possible is eventually taken.
InitTerm ==
  /\ InitBuy
  /\ buy_limit # None
  /\ rounds[PollRound].known \in {None, Some([id \in GiftIds |-> 1])}
  /\ rounds[PollRound].gift_ids =
       [i \in DOMAIN rounds[PollRound].gift_ids |-> i]
  /\ rounds[PollRound].known = None => Len(rounds[PollRound].gift_ids) <= 1

SpecTerm == InitTerm /\ [][NextBuy]_vars /\ WF_vars(NextBuy)

\* ------------------------------------------------- start::process, the loop
\* pollPc: "off" (no poll loop in this run), "fetch" (awaiting
\* GetStarGifts { hash: gifts_hash }), "buying" (awaiting buy_gifts),
\* "sync" (awaiting sync_session), "tick" (awaiting interval.tick()),
\* "exited" (process returned).
Ids(gifts) == {gifts[i].id : i \in DOMAIN gifts}

\* Variant: StarGift::Unique entries pass too.
IsPlainOrUnique(gift) == gift.kind \in {"Gift", "Unique"}

\* start.rs 103-106
IsPlain(gift) == gift.kind = "Gift"

\* Variant: the filter does not look at seen_gift_ids.
EligibleUnseenOrNot(gift, seen) ==
  (cfg.ignore_not_limited \/ gift.limited) /\ ~gift.sold_out

\* start.rs 107-111
Eligible(gift, seen) ==
  /\ (cfg.ignore_not_limited \/ gift.limited)
  /\ ~gift.sold_out
  /\ gift.id \notin seen

\* Variant: the supply threshold is applied before notifying.
NotificationSetWithinSupply(gifts, seen) ==
  SelectSeq(SelectSeq(SelectSeq(gifts, IsPlain), LAMBDA g : Eligible(g, seen)),
            LAMBDA g : /\ g.availability_total # None
                       /\ g.availability_total[1] <= cfg.max_supply)

\* start.rs 100-112: the gifts handed to notify_gifts.
NotificationSet(gifts, seen) ==
  SelectSeq(SelectSeq(gifts, IsPlain), LAMBDA g : Eligible(g, seen))

\* Variant: a gift without availability_total passes the threshold.
WithinSupplyOrAbsent(gift) ==
  \/ gift.availability_total = None
  \/ gift.availability_total[1] <= cfg.max_supply

\* start.rs 124-127
WithinSupply(gift) ==
  /\ gift.availability_total # None
  /\ gift.availability_total[1] <= cfg.max_supply

\* Option<i32> keys compare with None below every Some.
KeyLE(a, b) == a = None \/ (b # None /\ a[1] <= b[1])

\* start.rs 130: sort_by_key is a stable sort; g goes behind every entry
\* whose key is not above its own.
InsertByTotal(sorted, g) ==
  LET before == {i \in DOMAIN sorted :
                   KeyLE(sorted[i].availability_total, g.availability_total)}
      n == Cardinality(before)
  IN  SubSeq(sorted, 1, n) \o <<g>> \o SubSeq(sorted, n + 1, Len(sorted))

\* Variant: the list is left in catalog order.
SortByTotalUnsorted(gifts) == gifts

RECURSIVE SortByTotal(_)
SortByTotal(gifts) ==
  IF gifts = << >> THEN << >>
  ELSE InsertByTotal(SortByTotal(SubSeq(gifts, 1, Len(gifts) - 1)),
                     gifts[Len(gifts)])

\* start.rs 122-130: the gifts to buy, scarcest first.
PurchaseSet(notified) == SortByTotal(SelectSeq(notified, WithinSupply))

\* Variant: the set is replaced by the ids of this tick's purchase set.
MarkSeenReplaces(seen, gifts) == Ids(gifts)

\* Variant: the purchase set is not recorded.
MarkSeenNothing(seen, gifts) == seen

\* start.rs 134-136
MarkSeen(seen, gifts) == seen \cup Ids(gifts)

\* start.rs 138-139
GiftIdsOf(gifts) == [i \in DOMAIN gifts |-> gifts[i].id]

\* Variant: the table holds the first gift only.
GiftPricesMapOfFirst(gifts) ==
  [id \in {gifts[i].id : i \in DOMAIN gifts \cap {1}} |-> gifts[1].stars]

GiftPricesMap(gifts) ==
  [id \in Ids(gifts) |->
     gifts[CHOOSE i \in DOMAIN gifts :
             /\ gifts[i].id = id
             /\ \A j \in DOMAIN gifts : gifts[j].id = id => j <= i].stars]

\* Variant: --buy is not consulted.
ShouldBuyAlways(gift_ids) == gift_ids # << >>

\* start.rs 143
ShouldBuy(gift_ids) == gift_ids # << >> /\ cfg.do_buy

\* start.rs 93: the catalog request failed; `?` returns the error from
\* process.
PollFetchErr ==
  /\ pollPc = "fetch"
  /\ pollPc' = "exited"
  /\ lastTick' = None
  /\ lastLookup' = None
  /\ UNCHANGED <<clients, buy_limit, rounds, eng, cfg, gifts_hash,
                 seen_gift_ids, handed, notify, fan>>

\* Variant: a NotModified answer resets the stored hash.
PollNotModifiedForgets ==
  /\ pollPc = "fetch"
  /\ pollPc' = "sync"
  /\ gifts_hash' = 0
  /\ lastTick' = None
  /\ lastLookup' = None
  /\ UNCHANGED <<clients, buy_limit, rounds, eng, cfg, seen_gift_ids, handed,
                 notify, fan>>

\* start.rs 96 and 161: NotModified; the loop goes to sync_session.
PollNotModified ==
  /\ pollPc = "fetch"
  /\ pollPc' = "sync"
  /\ lastTick' = None
  /\ lastLookup' = None
  /\ UNCHANGED <<clients, buy_limit, rounds, eng, cfg, gifts_hash,
                 seen_gift_ids, handed, notify, fan>>

\* start.rs 96-161: a Gifts answer, up to the next await: buy_gifts when
\* there is something to buy and --buy is set, else sync_session.
PollGifts(U) ==
  /\ pollPc = "fetch"
  /\ \E hash \in Hashes, gifts \in Catalogs(U) :
       LET notified == NotificationSet(gifts, seen_gift_ids)
           purchase == PurchaseSet(notified)
           gift_ids == GiftIdsOf(purchase)
           buys == ShouldBuy(gift_ids)
           res == BuyGiftsCall(gift_ids, Some(GiftPricesMap(purchase)),
                               "PeerSelf")
       IN  /\ gifts_hash' = hash
           /\ seen_gift_ids' = MarkSeen(seen_gift_ids, purchase)
           /\ lastTick' = Some([hash |-> hash, gifts |-> gifts,
                                seen |-> seen_gift_ids,
                                notified |-> notified,
                                purchase |-> purchase, buys |-> buys])
           /\ lastLookup' =
                IF buys
                THEN Some([round |-> PollRound, fetched |-> FALSE,
                           table |-> GiftPricesMap(purchase)])
                ELSE None
           /\ IF buys
              THEN /\ rounds' = [rounds EXCEPT ![PollRound] = res.rd]
                   /\ eng' = [eng EXCEPT ![PollRound] = res.en]
                   /\ handed' = [id \in DOMAIN handed |->
                                   IF id \in Range(gift_ids)
                                   THEN handed[id] + 1 ELSE handed[id]]
                   /\ pollPc' = IF Returned(res.rd) THEN "sync" ELSE "buying"
              ELSE /\ pollPc' = "sync"
                   /\ UNCHANGED <<rounds, eng, handed>>
  /\ notify' = "running"
  /\ UNCHANGED <<clients, buy_limit, cfg, fan>>

\* start.rs 116-120 with bot.rs 182-280: a spawned notify_gifts task ends
\* with Ok.
NotifyGiftsOk ==
  /\ Alive
  /\ notify = "running"
  /\ notify' = "none"
  /\ lastTick' = None
  /\ lastLookup' = None
  /\ UNCHANGED <<clients, buy_limit, rounds, eng, pollPc, cfg, gifts_hash,
                 seen_gift_ids, handed, fan>>

\* start.rs 117-119: it ends with Err, which inspect_err logs.
NotifyGiftsErr ==
  /\ Alive
  /\ notify = "running"
  /\ notify' = "none"
  /\ lastTick' = None
  /\ lastLookup' = None
  /\ UNCHANGED <<clients, buy_limit, rounds, eng, pollPc, cfg, gifts_hash,
                 seen_gift_ids, handed, fan>>

\* start.rs 161-165: sync_session returned; its error is only logged.  The
\* iteration's buy_gifts_result is gone by now.
SyncSession ==
  /\ pollPc = "sync"
  /\ pollPc' = "tick"
  /\ lastTick' = None
  /\ lastLookup' = None
  /\ rounds' = [rounds EXCEPT ![PollRound] = IdleRound]
  /\ eng' = [eng EXCEPT ![PollRound] = NoEngines]
  /\ UNCHANGED <<clients, buy_limit, cfg, gifts_hash, seen_gift_ids, handed, notify, fan>>

\* start.rs 165 and 92-93: the interval ticked; the next request is sent.
PollTick ==
  /\ pollPc = "tick"
  /\ pollPc' = "fetch"
  /\ lastTick' = None
  /\ lastLookup' = None
  /\ UNCHANGED <<clients, buy_limit, rounds, eng, cfg, gifts_hash,
                 seen_gift_ids, handed, notify, fan>>

\* --------------------------------------------------- bot.rs, the listener
\* bot.rs 140-161: a callback query whose data parses to gift_id arrives;
\* the handler awaits answer_callback_query.  Handlers run concurrently
\* (for_each_concurrent(None, ..)), one round slot each.
CallbackQuery(r, gift_id) ==
  /\ Alive
  /\ rounds[r].state = "idle"
  /\ \A q \in CallbackRounds : q < r => rounds[q].state # "idle"
  /\ rounds' = [rounds EXCEPT ![r] = [IdleRound EXCEPT !.state = "answer",
                                                      !.gift_ids = <<gift_id>>]]
  /\ lastTick' = None
  /\ lastLookup' = None
  /\ UNCHANGED <<clients, buy_limit, eng, pollPc, cfg, gifts_hash,
                 seen_gift_ids, handed, notify, fan>>

\* bot.rs 141-160: a callback query without data, or with data that does
\* not parse as i64, arrives; the handler logs it and returns Ok.
CallbackQueryInvalid ==
  /\ Alive
  /\ lastTick' = None
  /\ lastLookup' = None
  /\ UNCHANGED <<clients, buy_limit, rounds, eng, pollPc, cfg, gifts_hash,
                 seen_gift_ids, handed, notify, fan>>

\* bot.rs 161-174: the query is answered; buy_gifts is spawned with
\* vec![gift_id] and no price table.
CallbackAnswered(r) ==
  /\ rounds[r].state = "answer"
  /\ Continue(r, BuyGiftsCall(rounds[r].gift_ids, None, "PeerSelf"))

\* bot.rs 161: answer_callback_query failed; `?` ends the handler.
CallbackAnswerErr(r) ==
  /\ rounds[r].state = "answer"
  /\ Continue(r, Fail(rounds[r], <<"TeloxideRequest">>))

\* bot.rs 162-174: the spawned task has logged the result of buy_gifts and
\* ends; nothing of the call is left.
CallbackTaskEnds(r) ==
  /\ Alive
  /\ Returned(rounds[r])
  /\ rounds' = [rounds EXCEPT ![r] = [IdleRound EXCEPT !.state = "ended"]]
  /\ eng' = [eng EXCEPT ![r] = NoEngines]
  /\ lastTick' = None
  /\ lastLookup' = None
  /\ UNCHANGED <<clients, buy_limit, pollPc, cfg, gifts_hash, seen_gift_ids,
                 handed, notify, fan>>

\* ------------------------------------------ the poll loop alone (SpecPoll)
\* The process with a listener that receives no callback query; the
\* catalog answers range over ListedGifts.
ProcessInit(accounts, limits) ==
  /\ clients \in accounts
  /\ buy_limit \in limits
  /\ rounds = [r \in RoundIds |-> IdleRound]
  /\ eng = [r \in RoundIds |-> NoEngines]
  /\ pollPc = "fetch"
  /\ cfg \in [ignore_not_limited : BOOLEAN, do_buy : BOOLEAN,
              max_supply : {ConfigMaxSupply}]
  /\ gifts_hash \in Hashes
  /\ seen_gift_ids = {}
  /\ lastTick = None
  /\ lastLookup = None
  /\ handed = [id \in GiftIds |-> 0]
  /\ notify = "none"
  /\ fan = FanOff

InitPoll == ProcessInit({<<1, 2>>}, {Some(1)})

NextPoll ==
  \/ NotifyGiftsOk
  \/ NotifyGiftsErr
  \/ PollFetchErr
  \/ PollNotModified
  \/ PollGifts(ListedGifts)
  \/ SyncSession
  \/ PollTick
  \/ \E a \in Phones : StarsStatusOk(PollRound, a, Balances)
  \/ \E a \in Phones : StarsStatusErr(PollRound, a)
  \/ \E a \in Phones : PaymentFormOk(PollRound, a)
  \/ \E a \in Phones : PaymentFormErr(PollRound, a)
  \/ \E a \in Phones : SendStarsFormOk(PollRound, a)
  \/ \E a \in Phones : SendStarsFormErr(PollRound, a)

SpecPoll == InitPoll /\ [][NextPoll]_vars

\* ------------------------------------ the poll loop's seen set (SpecSeen)
\* The poll loop with one account and catalog answers that list each gift
\* as unique, as sold out, or as limited and in stock with a total supply
\* that is absent or at the threshold: merely listed, notified only, or
\* selected for purchase.
SeenGifts ==
  {g \in ListedGifts :
     g.kind = "Gift" =>
       /\ g.limited
       /\ g.availability_total \in {None, Some(ConfigMaxSupply)}}

InitSeen == ProcessInit({<<1>>}, {Some(1)})

NextSeen ==
  \/ NotifyGiftsOk
  \/ NotifyGiftsErr
  \/ PollFetchErr
  \/ PollNotModified
  \/ PollGifts(SeenGifts)
  \/ SyncSession
  \/ PollTick
  \/ StarsStatusOk(PollRound, 1, Balances)
  \/ StarsStatusErr(PollRound, 1)
  \/ PaymentFormOk(PollRound, 1)
  \/ PaymentFormErr(PollRound, 1)
  \/ SendStarsFormOk(PollRound, 1)
  \/ SendStarsFormErr(PollRound, 1)

SpecSeen == InitSeen /\ [][NextSeen]_vars

\* ------------------------------------------------ the whole process (Spec)
\* The poll loop and the listener side by side, with one account and
\* catalog answers that list gifts the loop buys (limited, in stock, with a
\* total supply).
BuyableGifts ==
  {g \in ListedGifts :
     g.kind = "Gift" /\ g.limited /\ ~g.sold_out /\ g.availability_total # None}

Init == ProcessInit({<<1>>}, {Some(1)})

Next ==
  \/ NotifyGiftsOk
  \/ NotifyGiftsErr
  \/ PollFetchErr
  \/ PollNotModified
  \/ PollGifts(BuyableGifts)
  \/ SyncSession
  \/ PollTick
  \/ \E r \in CallbackRounds, id \in GiftIds : CallbackQuery(r, id)
  \/ CallbackQueryInvalid
  \/ \E r \in CallbackRounds : CallbackAnswered(r)
  \/ \E r \in CallbackRounds : CallbackAnswerErr(r)
  \/ \E r \in CallbackRounds : CallbackTaskEnds(r)
  \/ \E r \in CallbackRounds : PricesFetched(r, PricedGifts)
  \/ \E r \in CallbackRounds : PricesFetchErr(r)
  \/ \E r \in RoundIds, a \in Phones : StarsStatusOk(r, a, Balances)
  \/ \E r \in RoundIds, a \in Phones : StarsStatusErr(r, a)
  \/ \E r \in RoundIds, a \in Phones : PaymentFormOk(r, a)
  \/ \E r \in RoundIds, a \in Phones : PaymentFormErr(r, a)
  \/ \E r \in RoundIds, a \in Phones : SendStarsFormOk(r, a)
  \/ \E r \in RoundIds, a \in Phones : SendStarsFormErr(r, a)

Spec == Init /\ [][Next]_vars

\* --------------------------------- the poll loop under scheduling (SpecLoop)
\* The poll loop with one account and catalog answers over BuyableGifts.
\* The runtime polls the task of process whenever what it awaits is ready,
\* and every request it awaits (GetStarsStatus, GetPaymentForm,
\* SendStarsForm, sync_session) and interval.tick() completes, with Ok or
\* Err: a step of the loop that is possible is eventually taken.  Nothing is
\* assumed of the spawned notify_gifts tasks nor of the catalog request.
InitLoop == ProcessInit({<<1>>}, {Some(1)})

LoopStep ==
  \/ SyncSession
  \/ PollTick
  \/ \E a \in Phones : StarsStatusOk(PollRound, a, Balances)
  \/ \E a \in Phones : StarsStatusErr(PollRound, a)
  \/ \E a \in Phones : PaymentFormOk(PollRound, a)
  \/ \E a \in Phones : PaymentFormErr(PollRound, a)
  \/ \E a \in Phones : SendStarsFormOk(PollRound, a)
  \/ \E a \in Phones : SendStarsFormErr(PollRound, a)

NextLoop ==
  \/ NotifyGiftsOk
  \/ NotifyGiftsErr
  \/ PollFetchErr
  \/ PollNotModified
  \/ PollGifts(BuyableGifts)
  \/ LoopStep

SpecLoop == InitLoop /\ [][NextLoop]_vars /\ WF_vars(LoopStep)

\* ------------------------------------- the poll loop's ordering (SpecSupply)
\* The poll loop with one account and catalog answers of up to
\* MaxSupplyItems limited in-stock gifts whose total supply is absent or one
\* of SupplyTotals, against a threshold from SupplyThresholds.
SupplyIds == 1..MaxSupplyItems

SupplyTotals == {10, 30, 50}

SupplyThresholds == {30, 50}

SupplyGifts ==
  [kind : {"Gift"}, id : SupplyIds, limited : {TRUE}, sold_out : {FALSE},
   availability_total : {None} \cup {Some(t) : t \in SupplyTotals},
   stars : {1}]

InitSupply ==
  /\ clients = <<1>>
  /\ buy_limit = Some(1)
  /\ rounds = [r \in RoundIds |-> IdleRound]
  /\ eng = [r \in RoundIds |-> NoEngines]
  /\ pollPc = "fetch"
  /\ cfg \in [ignore_not_limited : {FALSE}, do_buy : BOOLEAN,
              max_supply : SupplyThresholds]
  /\ gifts_hash = 0
  /\ seen_gift_ids = {}
  /\ lastTick = None
  /\ lastLookup = None
  /\ handed = [id \in SupplyIds |-> 0]
  /\ notify = "none"
  /\ fan = FanOff

NextSupply ==
  \/ NotifyGiftsOk
  \/ NotifyGiftsErr
  \/ PollGifts(SupplyGifts)
  \/ SyncSession
  \/ PollTick
  \/ StarsStatusOk(PollRound, 1, Balances)
  \/ StarsStatusErr(PollRound, 1)
  \/ PaymentFormOk(PollRound, 1)
  \/ PaymentFormErr(PollRound, 1)
  \/ SendStarsFormOk(PollRound, 1)
  \/ SendStarsFormErr(PollRound, 1)

SpecSupply == InitSupply /\ [][NextSupply]_vars

\* ================================================================ claims
\* The per-item attempt limit as the specification states it.
StatedLimit == IF buy_limit = None THEN 100 ELSE buy_limit[1]

Engines == {<<r, a>> \in RoundIds \X Phones : a \in DOMAIN eng[r]}

\* The step resumes the future e of account a with the outcome of an
\* attempt (the form request failed, or the confirmation returned).
AttemptEnds(e, f) ==
  /\ e.pc \in {"form", "send"}
  /\ f # e
  /\ f.pc \notin {"dropped", "idle", "balance"}
  /\ ~(e.pc = "form" /\ f.pc = "send")

\* C1: when one account's future fails fatally while a sibling is still
\* running, the sibling is not cancelled: once buy_gifts has returned the
\* error, every future of the round has run to its end.
C1_FailureIsolation ==
  \A r \in RoundIds :
    rounds[r].state = "err" =>
      \A a \in DOMAIN eng[r] : eng[r][a].pc \in {"idle", "done", "failed"}

\* C2: a failed catalog fetch is never fatal to the poll loop: no failure of
\* the GetStarGifts request of a tick takes the loop to a terminal state.
C2_FetchFailureNotFatal == pollPc # "exited"

\* A per-client future that has been created and has neither finished nor
\* been dropped.
Live(e) == e.pc \in {"balance", "form", "send"}

\* C3: at most one purchase engine runs per account at any time: no two
\* buy_gifts calls that are inside try_join_all hold a live future for the
\* same account.
C3_OneEnginePerAccount ==
  \A r1, r2 \in RoundIds :
    (r1 # r2 /\ rounds[r1].state = "running" /\ rounds[r2].state = "running")
      => \A a \in DOMAIN eng[r1] \cap DOMAIN eng[r2] :
           ~(Live(eng[r1][a]) /\ Live(eng[r2][a]))

\* C4: no gift id is in two overlapping purchase rounds: no two buy_gifts
\* calls in progress at the same time have a gift id in common.
C4_NoOverlappingItem ==
  \A r1, r2 \in RoundIds :
    (r1 # r2 /\ InProgress(rounds[r1]) /\ InProgress(rounds[r2]))
      => Range(rounds[r1].gift_ids) \cap Range(rounds[r2].gift_ids) = {}

\* C5: no automatic retry across ticks: whatever the ticks answer and
\* however the purchase rounds end, the poll loop passes each gift id to
\* buy_gifts at most once.
C5_NoAutomaticRetry == \A id \in GiftIds : handed[id] <= 1

\* A gift the tick would buy if its id had never been seen.
C5_WouldBuy(gift) ==
  /\ IsPlain(gift)
  /\ cfg.ignore_not_limited \/ gift.limited
  /\ ~gift.sold_out
  /\ WithinSupply(gift)

C5_Witness ==
  /\ lastTick # None
  /\ cfg.do_buy
  /\ \E i \in DOMAIN lastTick[1].gifts :
       LET gift == lastTick[1].gifts[i] IN
       /\ C5_WouldBuy(gift)
       /\ gift.id \in lastTick[1].seen
       /\ handed[gift.id] = 1
       /\ gift.id \notin Ids(lastTick[1].purchase)
       /\ ~lastTick[1].buys

\* C6 (P1): a tick whose catalog lists a gift id that was in seen_gift_ids
\* when the answer arrived leaves that id out of the notification set and
\* out of the purchase set.
C6_SeenExcluded ==
  lastTick # None =>
    \A id \in lastTick[1].seen \cap Ids(lastTick[1].gifts) :
      /\ id \notin Ids(lastTick[1].notified)
      /\ id \notin Ids(lastTick[1].purchase)

C6_Witness ==
  /\ lastTick # None
  /\ \E i \in DOMAIN lastTick[1].gifts :
       LET gift == lastTick[1].gifts[i] IN
       /\ IsPlain(gift)
       /\ cfg.ignore_not_limited \/ gift.limited
       /\ ~gift.sold_out
       /\ gift.id \in lastTick[1].seen
       /\ gift.id \notin Ids(lastTick[1].notified)
       /\ lastTick[1].notified # << >>

\* The availability_total values of a gift list, in order.
TotalsOf(gifts) == [i \in DOMAIN gifts |-> gifts[i].availability_total]

\* C11 (P5): the purchase set of every Gifts answer is in ascending order of
\* availability_total, it holds the same gifts as the notified ones within
\* the threshold, and buy_gifts receives its ids in that order; gifts with
\* supplies [50, 10, 30] are passed in the order [10, 30, 50].
C11_SortedBySupply ==
  lastTick # None =>
    LET t == lastTick[1]
        within == SelectSeq(t.notified, WithinSupply)
    IN  /\ \A i, j \in DOMAIN t.purchase :
             i < j => /\ t.purchase[i].availability_total # None
                      /\ t.purchase[j].availability_total # None
                      /\ t.purchase[i].availability_total[1]
                           <= t.purchase[j].availability_total[1]
        /\ Len(t.purchase) = Len(within)
        /\ Range(t.purchase) = Range(within)
        /\ t.buys => rounds[PollRound].gift_ids = GiftIdsOf(t.purchase)
        /\ TotalsOf(within) = <<Some(50), Some(10), Some(30)>> =>
             TotalsOf(t.purchase) = <<Some(10), Some(30), Some(50)>>

C11_Witness ==
  /\ lastTick # None
  /\ TotalsOf(lastTick[1].gifts) = <<Some(50), Some(10), Some(30)>>
  /\ TotalsOf(lastTick[1].purchase) = <<Some(10), Some(30), Some(50)>>
  /\ lastTick[1].buys
  /\ rounds[PollRound].state = "running"
  /\ rounds[PollRound].gift_ids = <<2, 3, 1>>

\* The errors MaybeResolvedChannel::resolve returns (core.rs 243-258).
ResolveErrors ==
  {"GrammersInvocation", "ChatNotFound", "ChatIsNotChannel",
   "ChannelNotAccessible"}

\* C12 (P2): when the supplied table has a price for every requested id,
\* get_gift_prices succeeds and gift_prices has the length of gift_ids, with
\* gift_prices[i] the table's price of gift_ids[i] for every i (the order and
\* the repetitions of gift_ids are kept).
C12_KnownPricesInOrder ==
  (lastLookup # None /\ ~lastLookup[1].fetched) =>
    LET rd == rounds[lastLookup[1].round]
        table == lastLookup[1].table
    IN  Range(rd.gift_ids) \subseteq DOMAIN table =>
          /\ rd.state = "running"
          /\ rd.err = None
          /\ Len(rd.gift_prices) = Len(rd.gift_ids)
          /\ \A i \in DOMAIN rd.gift_ids :
               rd.gift_prices[i] = table[rd.gift_ids[i]]

C12_Witness ==
  /\ lastLookup # None
  /\ ~lastLookup[1].fetched
  /\ lastLookup[1].table = (1 :> 2 @@ 2 :> 0)
  /\ rounds[lastLookup[1].round].gift_ids = <<2, 1>>
  /\ rounds[lastLookup[1].round].gift_prices = <<0, 2>>

\* C13: when some requested id has no price in the table in use (the
\* supplied one, or the one built from the fetched catalog), buy_gifts
\* returns GiftPriceNotFound naming an id that is missing, with no price
\* list and no per-client future created; [1, 2] against a fetched catalog
\* that lists only gift 1 gives GiftPriceNotFound(2).
C13_AllOrNothing ==
  lastLookup # None =>
    LET r == lastLookup[1].round
        rd == rounds[r]
        table == lastLookup[1].table
        missing == Range(rd.gift_ids) \ DOMAIN table
    IN  /\ missing # {} =>
             /\ rd.state = "err"
             /\ Len(rd.err) = 2
             /\ rd.err[1] = "GiftPriceNotFound"
             /\ rd.err[2] \in missing
             /\ rd.gift_prices = << >>
             /\ \A a \in DOMAIN eng[r] : eng[r][a] = IdleEngine
        /\ (lastLookup[1].fetched /\ rd.gift_ids = <<1, 2>>
            /\ DOMAIN table = {1}) =>
             rd.err = <<"GiftPriceNotFound", 2>>

C13_Witness ==
  /\ lastLookup # None
  /\ lastLookup[1].fetched
  /\ DOMAIN lastLookup[1].table = {1}
  /\ rounds[lastLookup[1].round].gift_ids = <<1, 2>>
  /\ rounds[lastLookup[1].round].state = "err"
  /\ rounds[lastLookup[1].round].err = <<"GiftPriceNotFound", 2>>

\* C14: a failure before dispatch aborts the whole call with nothing
\* attempted: while buy_gifts has not reached try_join_all, and after it has
\* returned an error that is not the error of a per-client future, no future
\* exists (no balance was fetched, no form requested, no status reported),
\* and the error returned is the resolution's.
C14_AbortBeforeDispatch ==
  \A r \in RoundIds :
    LET rd == rounds[r]
        untouched == \A a \in DOMAIN eng[r] : eng[r][a] = IdleEngine
    IN  /\ rd.state \in {"call", "answer", "resolve", "prices"} => untouched
        /\ (rd.state = "err" /\ \A a \in DOMAIN eng[r] : eng[r][a].pc # "failed")
             => /\ untouched
                /\ rd.gift_prices = << >>
                /\ rd.err[1] \in ResolveErrors \cup
                     {"GiftPriceNotFound", "UnexpectedNotModified",
                      "TeloxideRequest"}

C14_Witness ==
  /\ rounds[PollRound].state = "err"
  /\ rounds[PollRound].err = <<"ChatNotFound">>
  /\ rounds[PollRound].gift_ids # << >>
  /\ \A a \in DOMAIN eng[PollRound] : eng[PollRound][a] = IdleEngine

\* C15: a tick answered NotModified processes nothing: the step leaves
\* gifts_hash, seen_gift_ids, the buy_gifts rounds and the notify tasks as
\* they were and goes on to sync_session; gifts_hash changes only in the
\* step of a Gifts answer, and every Gifts answer leaves it at the answer's
\* hash.
C15_Step ==
  /\ (pollPc = "fetch" /\ pollPc' \notin {"fetch", "exited"}
      /\ lastTick' = None)
       => /\ pollPc' = "sync"
          /\ lastLookup' = None
          /\ UNCHANGED <<gifts_hash, seen_gift_ids, rounds, eng, handed,
                         notify>>
  /\ gifts_hash' # gifts_hash => lastTick' # None
  /\ lastTick' # None => gifts_hash' = lastTick'[1].hash

C15_NotModifiedNoWork == [][C15_Step]_vars

\* The loop awaits sync_session with no buy_gifts call made in this
\* iteration, no Gifts answer in the step before and the notify task of an
\* earlier tick still running: the tick was answered NotModified, after an
\* earlier tick had stored hash 1 and seen gifts.
C15_Witness ==
  /\ pollPc = "sync"
  /\ lastTick = None
  /\ rounds[PollRound].state = "idle"
  /\ notify = "running"
  /\ gifts_hash = 1
  /\ seen_gift_ids # {}

\* C16: after a Gifts answer the poll loop sends its next catalog request,
\* whatever becomes of the notify_gifts task (which may fail or never end),
\* of the buy_gifts call and of sync_session.
C16_LoopGoesOn == (lastTick # None) ~> (pollPc = "fetch")

\* The buy_gifts call of the tick has failed while the tick's notify_gifts
\* task is still running, and the loop is on its way to sync_session.
C16_Witness ==
  /\ pollPc = "sync"
  /\ rounds[PollRound].state = "err"
  /\ notify = "running"

\* The entries of a Gifts answer that are to be notified, as stated: plain,
\* limited unless unlimited ones are included too, in stock, and with an id
\* that was not in the seen set when the answer arrived.
C17_ToNotify(t) ==
  {i \in DOMAIN t.gifts :
     /\ t.gifts[i].kind = "Gift"
     /\ cfg.ignore_not_limited \/ t.gifts[i].limited
     /\ ~t.gifts[i].sold_out
     /\ t.gifts[i].id \notin t.seen}

\* C17: the notification set of a Gifts answer holds exactly the entries
\* to be notified, each once, and a notify_gifts task is spawned with it.
C17_NotificationSetExact ==
  lastTick # None =>
    LET t == lastTick[1] IN
    /\ Range(t.notified) = {t.gifts[i] : i \in C17_ToNotify(t)}
    /\ Len(t.notified) = Cardinality(C17_ToNotify(t))
    /\ notify = "running"

C17_Witness ==
  /\ lastTick # None
  /\ Len(lastTick[1].gifts) = 2
  /\ lastTick[1].gifts[1].kind = "Unique"
  /\ lastTick[1].gifts[2].kind = "Gift"
  /\ ~lastTick[1].gifts[2].limited
  /\ lastTick[1].notified = <<lastTick[1].gifts[2]>>
  /\ lastTick[1].seen = {1}

\* The entries of the notification set that may be bought, as stated: those
\* with a total supply that is present and not above the threshold.
C18_ToBuy(t) ==
  {i \in DOMAIN t.notified :
     /\ t.notified[i].availability_total # None
     /\ t.notified[i].availability_total[1] <= cfg.max_supply}

\* C18: the purchase set of a Gifts answer holds exactly the entries of the
\* notification set whose total supply is present and within max_supply,
\* each once; what the poll loop passes to buy_gifts are their ids, so no
\* gift without a total supply or above the threshold is passed.
C18_PurchaseSetExact ==
  lastTick # None =>
    LET t == lastTick[1] IN
    /\ Range(t.purchase) = {t.notified[i] : i \in C18_ToBuy(t)}
    /\ Len(t.purchase) = Cardinality(C18_ToBuy(t))
    /\ t.buys =>
         /\ Range(rounds[PollRound].gift_ids) =
              {t.notified[i].id : i \in C18_ToBuy(t)}
         /\ Len(rounds[PollRound].gift_ids) = Cardinality(C18_ToBuy(t))

\* Two gifts are notified; the one within the threshold is bought, the one
\* without a total supply is not.
C18_Witness ==
  /\ lastTick # None
  /\ lastTick[1].buys
  /\ Len(lastTick[1].notified) = 2
  /\ lastTick[1].notified[1].availability_total = None
  /\ lastTick[1].notified[2].availability_total = Some(cfg.max_supply)
  /\ rounds[PollRound].gift_ids = <<lastTick[1].notified[2].id>>

\* C19: without --buy the poll loop never calls buy_gifts: its round slot
\* stays unused, no future of it exists and no id is handed over; and with
\* or without --buy a Gifts answer whose purchase set is empty makes no
\* call either.
C19_ObserveOnly ==
  /\ ~cfg.do_buy =>
       /\ rounds[PollRound] = IdleRound
       /\ \A a \in DOMAIN eng[PollRound] : eng[PollRound][a] = IdleEngine
       /\ \A id \in DOMAIN handed : handed[id] = 0
       /\ pollPc # "buying"
       /\ lastLookup = None
  /\ (lastTick # None /\ lastTick[1].purchase = << >>) =>
       /\ ~lastTick[1].buys
       /\ rounds[PollRound] = IdleRound
       /\ \A a \in DOMAIN eng[PollRound] : eng[PollRound][a] = IdleEngine
       /\ pollPc = "sync"
       /\ lastLookup = None

\* A Gifts answer with a gift to buy arrived while --buy is off.
C19_Witness ==
  /\ ~cfg.do_buy
  /\ lastTick # None
  /\ lastTick[1].purchase # << >>
  /\ pollPc = "sync"
  /\ rounds[PollRound] = IdleRound

\* C20: every callback query whose data is a gift id leads to exactly one
\* buy_gifts call, with a list of that one id and no price table: the step
\* in which its handler gets past answer_callback_query starts that call
\* (here: the call is awaiting its catalog), and while the handler has not
\* got there no call of it exists.
C20_Step ==
  \A r \in CallbackRounds :
    /\ rounds[r].state = "idle" => rounds'[r].state \in {"idle", "answer"}
    /\ (rounds[r].state = "answer" /\ rounds'[r].state # "answer") =>
         /\ rounds'[r].state = "prices"
         /\ rounds'[r].gift_ids = rounds[r].gift_ids
         /\ Len(rounds'[r].gift_ids) = 1
         /\ rounds'[r].known = None

C20_OneCallPerAction == [][C20_Step]_vars

\* C21: in a notification sent to several chats, a failed send to one chat
\* neither prevents nor cancels the send to another, and the task reports
\* an error only when the send to every chat has failed.
C21_IndependentRecipients ==
  /\ \A c \in DOMAIN fan.sends : fan.sends[c] # "dropped"
  /\ (fan.pc = "err" /\ fan.sends # << >>) =>
       \A c \in DOMAIN fan.sends : fan.sends[c] = "failed"

\* C22: an attempt is requested only while the balance covers the item's
\* price; an item whose price is above the balance gets no attempt and no
\* report, its loop ends, and the run goes on to the next item, which is
\* attempted when the balance covers its price: every item the run has
\* left was left at its limit or with a balance below its price.
C22_InsufficientBalanceStop ==
  \A ra \in Engines :
    LET e == eng[ra[1]][ra[2]]
        prices == rounds[ra[1]].gift_prices
    IN  (e.pc \in {"form", "send", "done", "dropped"}
         /\ DOMAIN e.requested = DOMAIN prices) =>
          /\ e.pc \in {"form", "send"} => e.amount >= prices[e.idx]
          /\ \A j \in DOMAIN prices :
               /\ e.initial < prices[j] =>
                    e.requested[j] = 0 /\ e.events[j] = 0
               /\ j < e.idx =>
                    e.requested[j] = StatedLimit \/ e.amount < prices[j]

C22_Witness ==
  \E ra \in Engines :
    LET e == eng[ra[1]][ra[2]]
        prices == rounds[ra[1]].gift_prices
    IN  /\ Len(prices) = 2
        /\ e.pc \in {"form", "send", "done"}
        /\ DOMAIN e.requested = DOMAIN prices
        /\ e.initial < prices[1]
        /\ e.requested[1] = 0 /\ e.events[1] = 0
        /\ e.idx = 2
        /\ e.requested[2] >= 1

\* C23: the step in which GetPaymentForm of an attempt fails reports the
\* attempt with PaymentFormError, sends no SendStarsForm for it, leaves the
\* balance as it was, and uses up the attempt's number: the item's next
\* attempt, if there is one, carries the next number.
C23_Step ==
  \A ra \in Engines :
    LET e == eng[ra[1]][ra[2]]
        f == eng'[ra[1]][ra[2]]
        rd == rounds[ra[1]]
    IN  (e.pc = "form" /\ f # e /\ f.pc # "dropped" /\ f.reply = "err") =>
          /\ f.pc \in {"form", "done"}
          /\ f.last # None
          /\ f.last[1].status = "PaymentFormError"
          /\ f.last[1].count = e.count
          /\ f.last[1].gift_id = rd.gift_ids[e.idx]
          /\ f.last[1].balance = e.amount
          /\ f.amount = e.amount
          /\ f.spent = e.spent
          /\ f.events[e.idx] = e.events[e.idx] + 1
          /\ (f.pc = "form" /\ f.idx = e.idx) =>
               /\ f.count = e.count + 1
               /\ f.requested[e.idx] = e.requested[e.idx] + 1
          /\ (f.pc = "done" \/ f.idx # e.idx) =>
               f.requested[e.idx] = e.requested[e.idx]

C23_FormErrorEndsAttempt == [][C23_Step]_vars

C23_Witness ==
  \E ra \in Engines :
    LET e == eng[ra[1]][ra[2]] IN
    /\ e.pc = "form"
    /\ e.reply = "err"
    /\ e.last # None
    /\ e.last[1].status = "PaymentFormError"
    /\ e.last[1].count = 1
    /\ e.count = 2
    /\ e.requested[e.idx] = 2
    /\ e.amount = e.initial
    /\ e.initial > 0

\* C24: a future that failed at GetStarsStatus has made no attempt (no form
\* request, no confirmation, no report), and a failed balance request
\* always ends the future; every running round has a future for each
\* account, one awaiting its balance is as new and carries nothing of an
\* earlier round, and one in its loops works on the balance this round
\* fetched.
C24_BalanceFetchedOncePerRound ==
  \A ra \in Engines :
    LET e == eng[ra[1]][ra[2]]
        rd == rounds[ra[1]]
    IN  /\ e.pc = "failed" =>
             e = [IdleEngine EXCEPT !.pc = "failed", !.reply = "err",
                                    !.faults = TRUE]
        /\ (e.faults /\ Sum(e.events) = 0) => e.pc = "failed"
        /\ e.pc = "balance" =>
             /\ e = [IdleEngine EXCEPT !.pc = "balance"]
             /\ rd.state = "running"
        /\ rd.state = "running" => e.pc # "idle"
        /\ rd.state \notin {"running", "ok", "err"} => e = IdleEngine
        /\ e.pc \in {"form", "send", "done"} =>
             /\ DOMAIN e.requested = DOMAIN rd.gift_prices
             /\ e.amount = e.initial - e.spent

C24_Witness ==
  /\ rounds[PollRound].state = "err"
  /\ Len(rounds[PollRound].gift_ids) = 1
  /\ Cardinality(seen_gift_ids) = 2
  /\ \E a \in DOMAIN eng[PollRound] :
       LET e == eng[PollRound][a] IN
       e.pc = "failed" /\ e.requested = << >> /\ e.last = None

\* C25: within one account's future at most one attempt is outstanding,
\* and it is attempt number `count` of the current item, whose earlier
\* attempts have all been reported; no later item has been attempted, and
\* every earlier item's loop has ended, at the limit or for lack of
\* balance.
C25_SequentialInOrder ==
  \A ra \in Engines :
    LET e == eng[ra[1]][ra[2]]
        prices == rounds[ra[1]].gift_prices
    IN  (e.pc \in {"form", "send", "done", "dropped"}
         /\ DOMAIN e.requested = DOMAIN prices) =>
          \A i \in DOMAIN prices :
            /\ e.events[i] <= e.requested[i]
            /\ e.requested[i] <= e.events[i] + 1
            /\ e.requested[i] = e.events[i] + 1 =>
                 i = e.idx /\ e.pc \in {"form", "send", "dropped"}
            /\ i > e.idx => e.requested[i] = 0
            /\ i < e.idx =>
                 e.requested[i] = StatedLimit \/ e.amount < prices[i]
            /\ (i = e.idx /\ e.pc \in {"form", "send"}) =>
                 e.requested[i] = e.count /\ e.events[i] = e.count - 1

C25_Witness ==
  \E ra \in Engines :
    LET e == eng[ra[1]][ra[2]]
        prices == rounds[ra[1]].gift_prices
    IN  /\ Len(prices) = 2
        /\ StatedLimit = 2
        /\ e.pc = "send"
        /\ e.idx = 2 /\ e.count = 2
        /\ e.requested = <<2, 2>>
        /\ e.events = <<2, 1>>

\* C27: with a fetched balance of at least 0 and prices of at least 0, the
\* balance of a running or finished future is never below 0, and the prices
\* of its attempts reported with Success sum to at most the fetched
\* balance.
C27_BalanceNonNegative ==
  \A ra \in Engines :
    LET e == eng[ra[1]][ra[2]]
        prices == rounds[ra[1]].gift_prices
    IN  (e.initial >= 0 /\ \A i \in DOMAIN prices : prices[i] >= 0) =>
          /\ e.amount >= 0
          /\ e.spent <= e.initial
          /\ e.spent >= 0

C27_Witness ==
  \E ra \in Engines :
    LET e == eng[ra[1]][ra[2]]
        prices == rounds[ra[1]].gift_prices
    IN  /\ e.pc = "done"
        /\ e.initial > 0
        /\ e.amount = 0
        /\ e.spent = e.initial
        /\ \E i \in DOMAIN prices :
             prices[i] > 0 /\ e.events[i] < StatedLimit

\* The ids a Gifts answer selects for purchase: plain, eligible, in stock,
\* unseen, with a total supply within the threshold.
C26_Selected(t) ==
  {t.gifts[i].id : i \in {j \in DOMAIN t.gifts :
     /\ t.gifts[j].kind = "Gift"
     /\ cfg.ignore_not_limited \/ t.gifts[j].limited
     /\ ~t.gifts[j].sold_out
     /\ t.gifts[j].id \notin t.seen
     /\ t.gifts[j].availability_total # None
     /\ t.gifts[j].availability_total[1] <= cfg.max_supply}}

\* C26: no step takes an id out of seen_gift_ids, and the only ids a step
\* adds are those the Gifts answer of that step selects for purchase; an id
\* that was listed or notified without being selected is not added.
C26_Step ==
  /\ seen_gift_ids \subseteq seen_gift_ids'
  /\ IF lastTick' = None THEN seen_gift_ids' = seen_gift_ids
     ELSE LET t == lastTick'[1] IN
          /\ t.seen = seen_gift_ids
          /\ seen_gift_ids' \ seen_gift_ids = C26_Selected(t)
          /\ \A id \in Ids(t.gifts) \cup Ids(t.notified) :
               (id \notin C26_Selected(t) /\ id \notin seen_gift_ids) =>
                 id \notin seen_gift_ids'

C26_SeenOnlyGrows == [][C26_Step]_vars

C26_Witness ==
  /\ lastTick # None
  /\ lastTick[1].seen # {}
  /\ lastTick[1].purchase # << >>
  /\ lastTick[1].seen \subseteq seen_gift_ids
  /\ seen_gift_ids # lastTick[1].seen

\* C29: a Gifts answer never selects for purchase, and never adds to
\* seen_gift_ids, a listed gift that is eligible and in stock but has no
\* total supply or one above the threshold; as long as its id is not in
\* seen_gift_ids such a gift is in the notification set of every Gifts
\* answer that lists it, while a gift in the purchase set was unseen and is
\* seen from then on.
C29_ObservedStaysNotified ==
  lastTick # None =>
    LET t == lastTick[1] IN
    /\ \A i \in DOMAIN t.gifts :
         LET g == t.gifts[i] IN
         (/\ g.kind = "Gift"
          /\ cfg.ignore_not_limited \/ g.limited
          /\ ~g.sold_out
          /\ \/ g.availability_total = None
             \/ g.availability_total[1] > cfg.max_supply) =>
           /\ g.id \notin Ids(t.purchase)
           /\ g.id \notin t.seen =>
                /\ g \in Range(t.notified)
                /\ g.id \notin seen_gift_ids
    /\ \A i \in DOMAIN t.purchase :
         /\ t.purchase[i].id \notin t.seen
         /\ t.purchase[i].id \in seen_gift_ids
         /\ t.purchase[i] \in Range(t.notified)

C29_Witness ==
  /\ lastTick # None
  /\ lastTick[1].seen # {}
  /\ lastTick[1].purchase = << >>
  /\ \E i \in DOMAIN lastTick[1].notified :
       LET g == lastTick[1].notified[i] IN
       /\ g.availability_total = None \/ g.availability_total[1] > cfg.max_supply
       /\ g.id \notin seen_gift_ids

\* C30: the table the poll loop passes to buy_gifts is made of the purchase
\* set its id list is made of: it has a price for every id passed, the price
\* the Gifts answer of the tick lists; so the lookup of the poller's call is
\* made in that table, the call never waits for a catalog of its own, and
\* it never fails with GiftPriceNotFound or UnexpectedNotModified.
C30_PollerPricesResolved ==
  /\ rounds[PollRound].state \notin {"resolve", "prices"}
  /\ rounds[PollRound].err # None =>
       rounds[PollRound].err[1] \notin
         {"GiftPriceNotFound", "UnexpectedNotModified"}
  /\ (lastLookup # None /\ lastLookup[1].round = PollRound) =>
       ~lastLookup[1].fetched
  /\ (lastTick # None /\ lastTick[1].buys) =>
       LET t == lastTick[1]
           rd == rounds[PollRound]
       IN  /\ lastLookup # None
           /\ lastLookup[1].round = PollRound
           /\ rd.state = "running"
           /\ rd.gift_ids = [i \in DOMAIN t.purchase |-> t.purchase[i].id]
           /\ DOMAIN lastLookup[1].table = Range(rd.gift_ids)
           /\ rd.gift_prices =
                [i \in DOMAIN t.purchase |-> t.purchase[i].stars]
           /\ \A i \in DOMAIN rd.gift_ids :
                lastLookup[1].table[rd.gift_ids[i]] = rd.gift_prices[i]
           /\ Range(t.purchase) \subseteq Range(t.gifts)

C30_Witness ==
  /\ lastTick # None
  /\ lastTick[1].buys
  /\ Len(lastTick[1].gifts) = 2
  /\ Len(rounds[PollRound].gift_ids) = 2
  /\ rounds[PollRound].gift_prices[1] # rounds[PollRound].gift_prices[2]
  /\ rounds[PollRound].state = "running"

\* The GetPaymentForm requests round r has issued, over all accounts.
C28_Attempts(r) ==
  Sum([a \in DOMAIN eng[r] |-> Sum(eng[r][a].requested)])

\* C28: when every request completes, a buy_gifts call over A accounts, I
\* items and limit L returns, whatever requests fail, and it has made at
\* most A * I * L attempts.
C28_RoundTerminates ==
  /\ <>[]Returned(rounds[PollRound])
  /\ [](C28_Attempts(PollRound) <=
          Len(clients) * Len(rounds[PollRound].gift_ids) * StatedLimit)

C28_Witness ==
  /\ rounds[PollRound].state = "ok"
  /\ Len(clients) = 2
  /\ StatedLimit = 2
  /\ rounds[PollRound].gift_ids # << >>
  /\ C28_Attempts(PollRound) =
       Len(clients) * Len(rounds[PollRound].gift_ids) * StatedLimit
  /\ \E a \in DOMAIN eng[PollRound] : eng[PollRound][a].faults

\* C7 (P3): in every step of a running future the balance does not grow; it
\* drops by exactly the item's price when the step reports Success and is
\* unchanged in every other step (form error, confirmation error, the
\* insufficient-balance stop); so the balance is the fetched one minus the
\* prices reported with Success.
C7_BalanceStep ==
  \A ra \in Engines :
    LET e == eng[ra[1]][ra[2]]
        f == eng'[ra[1]][ra[2]]
        prices == rounds[ra[1]].gift_prices
    IN  e.pc \in {"form", "send"} =>
          /\ f.amount <= e.amount
          /\ f.initial = e.initial
          /\ IF AttemptEnds(e, f) /\ f.last[1].status = "Success"
             THEN f.amount = e.amount - prices[e.idx]
             ELSE f.amount = e.amount

C7_BalanceMonotone ==
  /\ [][C7_BalanceStep]_vars
  /\ [](\A ra \in Engines :
          LET e == eng[ra[1]][ra[2]] IN
          e.pc \notin {"idle", "balance", "failed"} =>
            /\ e.amount = e.initial - e.spent
            /\ e.amount <= e.initial)

C7_Witness ==
  \E ra \in Engines :
    LET e == eng[ra[1]][ra[2]] IN
    /\ e.pc = "done" /\ e.last # None
    /\ e.last[1].status = "Success"
    /\ e.nonsucc
    /\ e.amount < e.initial

\* C8 (P4): for every item the attempts requested and the attempts reported
\* never exceed the per-item limit, 100 when none is supplied; the k-th
\* report of an item carries the attempt number k (numbers start at 1 and
\* go up by 1).
C8_Numbering ==
  \A ra \in Engines :
    LET e == eng[ra[1]][ra[2]]
        f == eng'[ra[1]][ra[2]]
    IN  AttemptEnds(e, f) =>
          /\ f.events[e.idx] = e.events[e.idx] + 1
          /\ f.last[1].count = f.events[e.idx]
          /\ \A i \in DOMAIN e.events : i # e.idx => f.events[i] = e.events[i]

C8_LimitRespected ==
  /\ [][C8_Numbering]_vars
  /\ [](\A ra \in Engines :
          LET e == eng[ra[1]][ra[2]] IN
          \A i \in DOMAIN e.events :
            /\ e.events[i] <= StatedLimit
            /\ e.requested[i] <= StatedLimit)

C8_Witness ==
  \E ra \in Engines :
    LET e == eng[ra[1]][ra[2]] IN
    /\ buy_limit = None
    /\ e.pc = "done"
    /\ e.events = <<100>>
    /\ e.last[1].count = 100

\* C9: the step that ends an attempt spawns exactly one report, carrying
\* the attempt's account, gift id, attempt number and status, and leaves the
\* future in its loops: at the next attempt of the same item when the limit
\* and the balance allow one, else at a later item or at the end; a started
\* attempt is never reported twice and never before it has ended.
C9_Step ==
  \A ra \in Engines :
    LET e == eng[ra[1]][ra[2]]
        f == eng'[ra[1]][ra[2]]
        rd == rounds[ra[1]]
    IN  AttemptEnds(e, f) =>
          /\ Sum(f.events) = Sum(e.events) + 1
          /\ f.last # None
          /\ f.last[1].phone = ra[2]
          /\ f.last[1].gift_id = rd.gift_ids[e.idx]
          /\ f.last[1].count = e.count
          /\ f.last[1].status =
               IF e.pc = "form" THEN "PaymentFormError"
               ELSE IF f.reply = "ok" THEN "Success"
               ELSE "SendStarsFormError"
          /\ f.pc \in {"form", "done"}
          /\ IF e.count < StatedLimit /\ f.amount >= rd.gift_prices[e.idx]
             THEN f.pc = "form" /\ f.idx = e.idx /\ f.count = e.count + 1
             ELSE f.pc = "done" \/ f.idx > e.idx

C9_OneEventPerAttempt ==
  /\ [][C9_Step]_vars
  /\ [](\A ra \in Engines :
          LET e == eng[ra[1]][ra[2]] IN
          /\ \A i \in DOMAIN e.events :
               /\ e.events[i] <= e.requested[i]
               /\ e.requested[i] <= e.events[i] + 1
               /\ e.pc = "done" => e.events[i] = e.requested[i]
          /\ e.pc = "failed" => e.last = None)

C9_Witness ==
  \E ra \in Engines :
    LET e == eng[ra[1]][ra[2]] IN
    /\ e.pc = "form"
    /\ e.last # None
    /\ e.last[1].status = "PaymentFormError"
    /\ e.last[1].count = 1
    /\ e.count = 2
    /\ e.events[e.idx] = 1

\* C10: when every remote call of an account succeeds, with one item of
\* price p > 0, fetched balance B and limit L, the account makes exactly
\* min(L, B div p) attempts, all reported Success, and ends with the balance
\* B - p * min(L, B div p); B = 250, p = 100, L = 2 gives 2 attempts and 50,
\* B = 50, p = 100 gives none, B = 50, p = 40, L = 2 gives 1 attempt and 10.
C10_Expected(e, p, n, left) ==
  /\ e.requested = <<n>>
  /\ e.events = <<n>>
  /\ ~e.nonsucc
  /\ e.amount = left

C10_AllSucceed ==
  \A ra \in Engines :
    LET e == eng[ra[1]][ra[2]]
        rd == rounds[ra[1]]
        p == rd.gift_prices[1]
        n == Min(StatedLimit, e.initial \div p)
    IN  (e.pc = "done" /\ ~e.faults /\ Len(rd.gift_prices) = 1 /\ p > 0) =>
          /\ C10_Expected(e, p, n, e.initial - p * n)
          /\ (e.initial = 250 /\ p = 100 /\ StatedLimit = 2) =>
               C10_Expected(e, p, 2, 50)
          /\ (e.initial = 50 /\ p = 100) => C10_Expected(e, p, 0, 50)
          /\ (e.initial = 50 /\ p = 40 /\ StatedLimit = 2) =>
               C10_Expected(e, p, 1, 10)

C10_Witness ==
  \E r \in RoundIds :
    /\ rounds[r].state = "ok"
    /\ rounds[r].gift_ids = <<42>>
    /\ rounds[r].gift_prices = <<100>>
    /\ buy_limit = Some(2)
    /\ DOMAIN eng[r] = {1, 2}
    /\ eng[r][1].initial = 250 /\ eng[r][1].amount = 50
    /\ eng[r][1].events = <<2>> /\ ~eng[r][1].nonsucc
    /\ eng[r][2].initial = 50 /\ eng[r][2].amount = 50
    /\ eng[r][2].events = <<0>>

====
